---- MODULE Spec2Model ----
(***************************************************************************)
(* Model of functions/src/index.ts: the three Cloud Functions              *)
(* requestVerification (Issuer), verifyCode (Verifier) and                 *)
(* cleanupExpiredCodes (Sweeper) over the Realtime Database paths          *)
(* verificationCodes/ and users/ and the Firebase Auth user table.         *)
(* Every await of a handler is one atomic step; handlers interleave        *)
(* between steps.  Strings that the code inspects character by character   *)
(* (phone numbers) are sequences of one-character strings.                 *)
(***************************************************************************)
EXTENDS Integers, Sequences, FiniteSets, TLC

\* ------------------------------------------------------------------ bounds
MaxCodes == 2      \* push ids handed out by codesRef.push()
MaxTicks == 2      \* clock advances
MaxLen == 4        \* characters of a phone number handed to formatPhoneNumber

\* --------------------------------------------------------- program constants
TTL == 300000      \* 5 * 60 * 1000 ms

\* verifyCode invocations in flight at once
VerProcs == {1, 2}
CodeIds  == 1..MaxCodes

\* phoneNumber values of req.body used by the protocol model:
\* "" (missing), "+72", "072" (same number after formatting), "x" (no digits)
PhoneInputs == { <<>>, <<"+","7","2">>, <<"0","7","2">>, <<"x">> }

\* Math.floor(100000 + Math.random() * 900000).toString(): the verifier only
\* compares the stored code with the submitted one, so one drawn value and
\* one value that is never drawn cover both outcomes of the comparison
GenCodes == {"123456"}

\* the code field of a verifyCode body: the drawn value or another one
SubmittedCodes == GenCodes \cup {"000000"}

Absent == "<absent>"

VARIABLES
  now,        \* Date.now()
  codes,      \* verificationCodes/<id>
  nextId,     \* number of push ids handed out
  authUsers,  \* Firebase Auth user table
  users,      \* users/<uid>
  iss,        \* the requestVerification invocation
  ver,        \* the verifyCode invocations
  swp,        \* the cleanupExpiredCodes invocation
  written,    \* history: the code ids whose set() was acknowledged
  deliveries, \* history: the code ids whose gateway call was attempted
  tokensFor,  \* history: 200 responses of verifyCode per code id
  createdBy,  \* history: phone number and uid of the 200 responses that created
  lastWrong,  \* history: the code id of the verifyCode call that ended last,
              \* when it was answered "Incorrect verification code", else 0
  fmtTrace,   \* a phone number entered by a user, followed by the results of
              \* the successive calls of formatPhoneNumber on it
  gateway     \* functions.config().whatsapp of the deployment

vars == <<now, codes, nextId, authUsers, users, iss, ver, swp, written,
          deliveries, tokensFor, createdBy, lastWrong, fmtTrace, gateway>>

\* ------------------------------------------------------------- pure helpers
Digits == {"0","1","2","3","4","5","6","7","8","9"}

IsDigit(c) == c \in Digits

StartsWith(s, c) == Len(s) > 0 /\ s[1] = c

formatPhoneNumber(phoneNumber) ==
  LET digits == SelectSeq(phoneNumber, IsDigit) IN
  IF StartsWith(digits, "1") THEN <<"+">> \o digits
  ELSE IF StartsWith(digits, "0") THEN <<"+">> \o Tail(digits)
  ELSE IF ~StartsWith(phoneNumber, "+") THEN <<"+">> \o digits
  ELSE phoneNumber

DisplayName(firstName, lastName) == firstName \o " " \o lastName

NoRec == [exists |-> FALSE, phoneNumber |-> <<>>, code |-> "",
          expiresAt |-> 0, createdAt |-> 0]

Rec(p, c, e, t) == [exists |-> TRUE, phoneNumber |-> p, code |-> c,
                    expiresAt |-> e, createdAt |-> t]

\* the clock moves by one millisecond or by a whole TTL
TicksOf(t) == (t \div TTL) + (t % TTL)

\* ------------------------------------------------- the identity store (Auth)
\* admin.auth() accepts a phone number that starts with "+" and has a digit
ValidPhone(p) == StartsWith(p, "+") /\ Len(SelectSeq(p, IsDigit)) > 0

UsersWithPhone(p) == {u \in authUsers : u.phoneNumber = p}

\* getUserByPhoneNumber: the error code it throws, "" when it resolves
LookupError(p) ==
  IF ~ValidPhone(p) THEN "auth/invalid-phone-number"
  ELSE IF UsersWithPhone(p) = {} THEN "auth/user-not-found"
  ELSE ""

\* variant: createUser without the unique phone number rule
CreateUserErrorNoUnique(p) ==
  IF ~ValidPhone(p) THEN "auth/invalid-phone-number" ELSE ""

\* createUser: the error code it throws, "" when it resolves
CreateUserError(p) ==
  IF ~ValidPhone(p) THEN "auth/invalid-phone-number"
  ELSE IF UsersWithPhone(p) # {} THEN "auth/phone-number-already-exists"
  ELSE ""

\* variant: every error code makes the catch block create a user
CreatesOnAny(errorCode) == TRUE

\* the catch block creates a user on these two codes and rethrows the rest
CreatesOn(errorCode) ==
  errorCode = "auth/user-not-found" \/ errorCode = "auth/invalid-phone-number"

\* ------------------------------------------------------------------ requests
IssRequests ==
  {[method |-> "GET", phoneNumber |-> <<"+","7","2">>]}
  \cup {[method |-> "POST", phoneNumber |-> p] : p \in PhoneInputs}

NoReq == [method |-> "", codeId |-> 0, code |-> "", firstName |-> "",
          lastName |-> ""]

VReq(m, i, c, f, l) == [method |-> m, codeId |-> i, code |-> c,
                        firstName |-> f, lastName |-> l]

\* codeId 0 and the empty strings stand for a missing (falsy) body field
VerRequests ==
  {VReq("POST", i, c, f, "L") : i \in CodeIds, c \in SubmittedCodes, f \in {"A", "B"}}
  \cup {VReq("GET", 1, "123456", "A", "L"),
        VReq("POST", 0, "123456", "A", "L"),
        VReq("POST", 1, "", "A", "L"),
        VReq("POST", 1, "", "", "L"),
        VReq("POST", 1, "123456", "", "L"),
        VReq("POST", 1, "123456", "A", "")}

\* ------------------------------------------------------------------ state
IssIdle == [pc |-> "idle", formatted |-> <<>>,
            code |-> "", codeId |-> 0, expiresAt |-> 0, createdAt |-> 0,
            status |-> 0, error |-> "", respCodeId |-> 0, delivery |-> "none"]

VerIdle == [pc |-> "idle", req |-> NoReq, snap |-> NoRec, vnow |-> 0,
            uid |-> 0, path |-> "none", mutated |-> FALSE, removed |-> FALSE,
            token |-> 0, status |-> 0, error |-> "", thrown |-> "",
            errorCode |-> "", createdAt |-> 0, late |-> FALSE, prior |-> 0]

SwpIdle == [pc |-> "idle", snow |-> 0, matched |-> {}, wrote |-> FALSE]

\* functions.config().whatsapp: with the fallback values of lines 314-315 the
\* helper makes no gateway call (321-324)
GatewayConfigs == {"live", "test"}

\* empty stores, no invocation in flight
InitStores ==
  /\ now = 0
  /\ codes = [i \in CodeIds |-> NoRec]
  /\ nextId = 0
  /\ authUsers = {}
  /\ users = <<>>
  /\ iss = IssIdle
  /\ ver = [v \in VerProcs |-> VerIdle]
  /\ swp = SwpIdle
  /\ written = {}
  /\ deliveries = {}
  /\ tokensFor = [i \in CodeIds |-> 0]
  /\ createdBy = {}
  /\ lastWrong = 0
  /\ fmtTrace = <<>>

\* a deployment with a configured gateway: with the test configuration the
\* Issuer takes the same steps, without the gateway call
Init == InitStores /\ gateway = "live"

\* a deployment with either configuration
InitIssue == InitStores /\ gateway \in GatewayConfigs

\* A response ends its invocation before any other handler takes a step: the
\* end of an invocation touches nothing another handler can see.
Responding ==
  iss.pc = "done" \/ swp.pc = "done" \/ \E v \in VerProcs : ver[v].pc = "done"

Tick ==
  /\ ~Responding
  /\ \E d \in {1, TTL} :
       /\ TicksOf(now + d) <= MaxTicks
       /\ now' = now + d
  /\ UNCHANGED <<codes, nextId, authUsers, users, iss, ver, swp, written, deliveries, tokensFor, createdBy, lastWrong, fmtTrace, gateway>>

\* ------------------------------------------------- requestVerification
IssRespond(status, error, cid) ==
  [iss EXCEPT !.pc = "done", !.status = status, !.error = error,
              !.respCodeId = cid]

\* variant: the gateway call comes first
FirstAwaitDeliver == "deliver"

\* the first await of the handler: set() at line 129, before the gateway call
FirstAwait == "write"

\* lines 87-120: method and body checks, formatting, the code, the push id
\* and the two Date.now() calls; the clock moves on by d between the two
ReqBuild(d) ==
  /\ ~Responding
  /\ iss.pc = "idle"
  /\ \E r \in IssRequests :
       IF r.method # "POST" THEN
         /\ iss' = IssRespond(405, "Method not allowed", 0)
         /\ UNCHANGED <<nextId, now>>
       ELSE IF r.phoneNumber = <<>> THEN
         /\ iss' = IssRespond(400, "Phone number is required", 0)
         /\ UNCHANGED <<nextId, now>>
       ELSE
         /\ nextId < MaxCodes
         /\ TicksOf(now + d) <= MaxTicks
         /\ now' = now + d
         /\ \E c \in GenCodes :
              iss' = [iss EXCEPT !.pc = FirstAwait,
                                 !.formatted = formatPhoneNumber(r.phoneNumber),
                                 !.code = c,
                                 !.codeId = nextId + 1,
                                 !.expiresAt = now + TTL,
                                 !.createdAt = now + d]
         /\ nextId' = nextId + 1
  /\ UNCHANGED <<codes, authUsers, users, ver, swp, written, deliveries, tokensFor, createdBy, lastWrong, fmtTrace, gateway>>

\* both Date.now() calls return the same millisecond
ReqStart == ReqBuild(0)

\* the clock moves to the next millisecond between the Date.now() of line 118
\* and the Date.now() of line 119
ReqStartAcrossTick == ReqBuild(1)

IssRecord == Rec(iss.formatted, iss.code, iss.expiresAt, iss.createdAt)

\* where the handler goes once set() has resolved
AfterWrite == "deliver"

\* variant: a delivery failure reaches the outer catch
DeliveryStatusSurfaced(outcome) == IF outcome = "failed" THEN 500 ELSE 200

\* what the handler answers after sendWhatsAppVerificationCode returned or
\* threw: the inner try/catch swallows the failure
DeliveryStatus(outcome) == 200

\* lines 137-153: the response once the helper has returned with the outcome
IssAnswer(outcome) ==
  IF DeliveryStatus(outcome) = 200
  THEN [IssRespond(200, "", iss.codeId) EXCEPT !.delivery = outcome]
  ELSE [IssRespond(500, "Failed to send verification code", 0)
          EXCEPT !.delivery = outcome]

\* lines 129-133, 297-331: set() lands and resolves, and the handler goes on
\* to sendWhatsAppVerificationCode and awaits its promise (line 133): with the
\* test configuration the helper returns true without a gateway call (321-324),
\* otherwise axios.post is issued
ReqWrite ==
  /\ ~Responding
  /\ iss.pc = "write"
  /\ codes' = [codes EXCEPT ![iss.codeId] = IssRecord]
  /\ written' = written \cup {iss.codeId}
  /\ iss' = [iss EXCEPT !.pc = AfterWrite]
  /\ deliveries' = IF gateway = "test" THEN deliveries
                   ELSE deliveries \cup {iss.codeId}
  /\ UNCHANGED <<now, nextId, authUsers, users, ver, swp, tokensFor, createdBy, lastWrong, fmtTrace, gateway>>

\* line 129 rejects: the outer catch answers 500 (lines 146-153)
ReqWriteFails ==
  /\ ~Responding
  /\ iss.pc = "write"
  /\ iss' = IssRespond(500, "Failed to send verification code", 0)
  /\ UNCHANGED <<now, codes, nextId, authUsers, users, ver, swp, written,
                 deliveries, tokensFor, createdBy, lastWrong, fmtTrace, gateway>>

\* what the awaited helper can return with: true without a call under the test
\* configuration (321-324); under a configured gateway true on a 2xx answer,
\* false on a non-2xx status or a network error (331-381)
HelperOutcomes == IF gateway = "test" THEN {"skipped"} ELSE {"sent", "failed"}

\* lines 133-145: the helper's promise settles, the handler resumes after the
\* await of line 133 and answers 200
ReqDeliver ==
  /\ ~Responding
  /\ iss.pc = "deliver"
  /\ \E outcome \in HelperOutcomes : iss' = IssAnswer(outcome)
  /\ UNCHANGED <<now, codes, nextId, authUsers, users, ver, swp, written,
                 deliveries, tokensFor, createdBy, lastWrong, fmtTrace, gateway>>

ReqFinish ==
  /\ iss.pc = "done"
  /\ iss' = IssIdle
  /\ UNCHANGED <<now, codes, nextId, authUsers, users, ver, swp, written,
                 deliveries, tokensFor, createdBy, lastWrong, fmtTrace, gateway>>

\* ------------------------------------------------------------- verifyCode
\* history read when a call starts: was a token already returned for this
\* code id, and which uid did an earlier creating call return for the phone
TokenReturned(id) == id \in CodeIds /\ tokensFor[id] > 0

PriorUid(p) == IF \E c \in createdBy : c.phoneNumber = p
               THEN (CHOOSE c \in createdBy : c.phoneNumber = p).uid
               ELSE 0

VerRespond(v, status, error) ==
  [ver EXCEPT ![v].pc = "done", ![v].status = status, ![v].error = error]

\* variant: the name fields are tested before codeId and code
BodyErrorNamesFirst(r) ==
  IF r.method # "POST" THEN "Method not allowed"
  ELSE IF r.firstName = "" \/ r.lastName = "" THEN
    "First name and last name are required"
  ELSE IF r.codeId = 0 \/ r.code = "" THEN
    "Code ID and verification code are required"
  ELSE ""

\* lines 165-186: the checks made before the store is read; "" when all pass
BodyError(r) ==
  IF r.method # "POST" THEN "Method not allowed"
  ELSE IF r.codeId = 0 \/ r.code = "" THEN
    "Code ID and verification code are required"
  ELSE IF r.firstName = "" \/ r.lastName = "" THEN
    "First name and last name are required"
  ELSE ""

BodyStatus(r) == IF r.method # "POST" THEN 405 ELSE 400

\* lines 165-189: the body checks, then codesRef.child(codeId).once("value")
VerifyRead(v) ==
  /\ ~Responding
  /\ ver[v].pc = "idle"
  /\ \A w \in VerProcs : w < v => ver[w].pc # "idle"
  /\ \E r \in VerRequests :
       LET started == [ver EXCEPT ![v].req = r,
                                  ![v].late = TokenReturned(r.codeId)] IN
       IF BodyError(r) # "" THEN
         ver' = [started EXCEPT ![v].pc = "done",
                                ![v].status = BodyStatus(r),
                                ![v].error = BodyError(r)]
       ELSE
         ver' = [started EXCEPT ![v].pc = "check", ![v].snap = codes[r.codeId],
                                ![v].prior = PriorUid(codes[r.codeId].phoneNumber)]
  /\ UNCHANGED <<now, codes, nextId, authUsers, users, iss, swp, written, deliveries, tokensFor, createdBy, lastWrong, fmtTrace, gateway>>

\* variant: no expiry test
ExpiredNever(rec, t) == FALSE

\* variant: a record is expired from expiresAt on
ExpiredAtDeadline(rec, t) == rec.expiresAt <= t

\* line 202: the expiry test
Expired(rec, t) == rec.expiresAt < t

\* variant: the stored code never equals the submitted one
CodeMatchesNever(rec, code) == FALSE

\* line 212: the code test
CodeMatches(rec, code) == rec.code = code

\* variant: a wrong code deletes the record
VerifyCheckConsumes(v) ==
  /\ ~Responding
  /\ ver[v].pc = "check"
  /\ LET me == ver[v] IN
     IF ~me.snap.exists THEN
       /\ ver' = VerRespond(v, 400, "Verification code not found")
       /\ UNCHANGED codes
     ELSE IF me.snap.expiresAt < now THEN
       /\ ver' = [ver EXCEPT ![v].pc = "rmExpired", ![v].vnow = now]
       /\ UNCHANGED codes
     ELSE IF me.snap.code # me.req.code THEN
       /\ ver' = [VerRespond(v, 400, "Incorrect verification code")
                    EXCEPT ![v].vnow = now]
       /\ codes' = [codes EXCEPT ![me.req.codeId] = NoRec]
     ELSE
       /\ ver' = [ver EXCEPT ![v].pc = "lookup", ![v].vnow = now]
       /\ UNCHANGED codes
  /\ UNCHANGED <<now, nextId, authUsers, users, iss, swp, written,
                 deliveries, tokensFor, createdBy, lastWrong, fmtTrace, gateway>>

\* lines 191-217: exists(), Date.now(), the expiry test and the code test
VerifyCheck(v) ==
  /\ ~Responding
  /\ ver[v].pc = "check"
  /\ LET me == ver[v] IN
     IF ~me.snap.exists THEN
       ver' = VerRespond(v, 400, "Verification code not found")
     ELSE IF Expired(me.snap, now) THEN
       ver' = [ver EXCEPT ![v].pc = "rmExpired", ![v].vnow = now]
     ELSE IF ~CodeMatches(me.snap, me.req.code) THEN
       ver' = [VerRespond(v, 400, "Incorrect verification code")
                 EXCEPT ![v].vnow = now]
     ELSE
       ver' = [ver EXCEPT ![v].pc = "lookup", ![v].vnow = now]
  /\ UNCHANGED <<now, codes, nextId, authUsers, users, iss, swp, written,
                 deliveries, tokensFor, createdBy, lastWrong, fmtTrace, gateway>>

\* variant: the record is left in the store
RemoveCodeKeeps(id) == codes

\* codesRef.child(id).remove(): a no-op on a missing key
RemoveCode(id) == [codes EXCEPT ![id] = NoRec]

\* lines 204-208: delete the expired record, answer "expired"
VerifyRemoveExpired(v) ==
  /\ ~Responding
  /\ ver[v].pc = "rmExpired"
  /\ codes' = RemoveCode(ver[v].req.codeId)
  /\ ver' = [VerRespond(v, 400, "Verification code has expired")
               EXCEPT ![v].removed = codes[ver[v].req.codeId].exists]
  /\ UNCHANGED <<now, nextId, authUsers, users, iss, swp, written, deliveries, tokensFor, createdBy, lastWrong, fmtTrace, gateway>>

\* lines 225-226 and 239-243, 261-263: getUserByPhoneNumber and, when it
\* throws, the catch block's test of the error code
VerifyLookup(v) ==
  /\ ~Responding
  /\ ver[v].pc = "lookup"
  /\ LET p == ver[v].snap.phoneNumber
         e == LookupError(p) IN
     IF e = "" THEN
       \E u \in UsersWithPhone(p) :
         ver' = [ver EXCEPT ![v].pc = "updAuth", ![v].uid = u.uid]
     ELSE IF CreatesOn(e) THEN
       ver' = [ver EXCEPT ![v].pc = "create", ![v].errorCode = e]
     ELSE
       ver' = [VerRespond(v, 500, "Failed to verify code or create user")
                 EXCEPT ![v].thrown = e, ![v].errorCode = e]
  /\ UNCHANGED <<now, codes, nextId, authUsers, users, iss, swp, written, deliveries, tokensFor, createdBy, lastWrong, fmtTrace, gateway>>

\* lines 229-231: updateUser(uid, {displayName})
VerifyUpdateAuth(v) ==
  /\ ~Responding
  /\ ver[v].pc = "updAuth"
  /\ LET me == ver[v] IN
     authUsers' = {IF u.uid = me.uid
                   THEN [u EXCEPT !.displayName =
                           DisplayName(me.req.firstName, me.req.lastName)]
                   ELSE u : u \in authUsers}
  /\ ver' = [ver EXCEPT ![v].pc = "updDir", ![v].mutated = TRUE,
                        ![v].path = "updated"]
  /\ UNCHANGED <<now, codes, nextId, users, iss, swp, written, deliveries, tokensFor, createdBy, lastWrong, fmtTrace, gateway>>

NoEntry == [firstName |-> Absent, lastName |-> Absent, displayName |-> Absent,
            phoneNumber |-> <<>>, uid |-> 0, role |-> Absent, createdAt |-> -1]

\* users/<uid> as update() sees it: the stored children, none when missing
EntryOf(uid) == IF uid \in DOMAIN users THEN users[uid] ELSE NoEntry

PutEntry(uid, e) == [k \in DOMAIN users \cup {uid} |->
                       IF k = uid THEN e ELSE users[k]]

\* variant: only displayName is written
DirUpdateDisplayOnly(e, firstName, lastName) ==
  [e EXCEPT !.displayName = DisplayName(firstName, lastName)]

\* the children update({firstName, lastName, displayName}) leaves under an entry
DirUpdate(e, firstName, lastName) ==
  [e EXCEPT !.firstName = firstName, !.lastName = lastName,
            !.displayName = DisplayName(firstName, lastName)]

\* lines 234-238: usersRef.child(uid).update({firstName, lastName, displayName})
VerifyUpdateDir(v) ==
  /\ ~Responding
  /\ ver[v].pc = "updDir"
  /\ LET me == ver[v] IN
     users' = PutEntry(me.uid,
                DirUpdate(EntryOf(me.uid), me.req.firstName, me.req.lastName))
  /\ ver' = [ver EXCEPT ![v].pc = "remove"]
  /\ UNCHANGED <<now, codes, nextId, authUsers, iss, swp, written, deliveries, tokensFor, createdBy, lastWrong, fmtTrace, gateway>>

\* the uid Auth gives a new user
FreshUid == Cardinality(authUsers) + 1

\* lines 245-248: createUser({displayName, phoneNumber}) lands on the identity
\* store; the handler is still waiting at the await.  A rejection is thrown
\* inside the catch block and reaches the outer catch (500)
VerifyCreate(v) ==
  /\ ~Responding
  /\ ver[v].pc = "create"
  /\ LET me == ver[v]
         p == me.snap.phoneNumber IN
     IF CreateUserError(p) = "" THEN
       /\ authUsers' = authUsers \cup
            {[uid |-> FreshUid, phoneNumber |-> p,
              displayName |-> DisplayName(me.req.firstName, me.req.lastName)]}
       /\ ver' = [ver EXCEPT ![v].pc = "userData", ![v].uid = FreshUid,
                             ![v].mutated = TRUE, ![v].path = "created"]
     ELSE
       /\ ver' = [VerRespond(v, 500, "Failed to verify code or create user")
                    EXCEPT ![v].thrown = CreateUserError(p)]
       /\ UNCHANGED authUsers
  /\ UNCHANGED <<now, codes, nextId, users, iss, swp, written, deliveries, tokensFor, createdBy, lastWrong, fmtTrace, gateway>>

\* lines 245-260: the handler resumes with the new userRecord, builds userData
\* with createdAt: Date.now() and issues set(userData)
VerifyUserData(v) ==
  /\ ~Responding
  /\ ver[v].pc = "userData"
  /\ ver' = [ver EXCEPT ![v].pc = "setDir", ![v].createdAt = now]
  /\ UNCHANGED <<now, codes, nextId, authUsers, users, iss, swp, written, deliveries, tokensFor, createdBy, lastWrong, fmtTrace, gateway>>

\* line 260: usersRef.child(uid).set(userData) lands
VerifySetDir(v) ==
  /\ ~Responding
  /\ ver[v].pc = "setDir"
  /\ LET me == ver[v] IN
     users' = PutEntry(me.uid,
                [firstName |-> me.req.firstName, lastName |-> me.req.lastName,
                 displayName |-> Absent, phoneNumber |-> me.snap.phoneNumber,
                 uid |-> me.uid, role |-> "user", createdAt |-> me.createdAt])
  /\ ver' = [ver EXCEPT ![v].pc = "remove"]
  /\ UNCHANGED <<now, codes, nextId, authUsers, iss, swp, written, deliveries, tokensFor, createdBy, lastWrong, fmtTrace, gateway>>

\* line 267: delete the used verification code
VerifyRemove(v) ==
  /\ ~Responding
  /\ ver[v].pc = "remove"
  /\ codes' = RemoveCode(ver[v].req.codeId)
  /\ ver' = [ver EXCEPT ![v].pc = "token",
                        ![v].removed = codes[ver[v].req.codeId].exists]
  /\ UNCHANGED <<now, nextId, authUsers, users, iss, swp, written, deliveries, tokensFor, createdBy, lastWrong, fmtTrace, gateway>>

\* lines 270-278: createCustomToken(uid), then the 200 response
VerifyToken(v) ==
  /\ ~Responding
  /\ ver[v].pc = "token"
  /\ ver' = [VerRespond(v, 200, "") EXCEPT ![v].token = ver[v].uid]
  /\ tokensFor' = [tokensFor EXCEPT ![ver[v].req.codeId] = @ + 1]
  /\ createdBy' = IF ver[v].path = "created"
                  THEN createdBy \cup {[phoneNumber |-> ver[v].snap.phoneNumber,
                                        uid |-> ver[v].uid]}
                  ELSE createdBy
  /\ UNCHANGED <<now, codes, nextId, authUsers, users, iss, swp, written,
                 deliveries, lastWrong, fmtTrace, gateway>>

\* ---------------------------------------- verifyCode with a failing store
\* the code of an error for which the identity store or the database rejects
\* a call that it would otherwise have served
StoreFaults == {"auth/internal-error"}

\* variant: the record is removed when the request fails
FailureRemoves(id) == RemoveCode(id)

\* lines 279-287: the outer catch answers 500 and writes nothing
FailureKeeps(id) == codes

\* lines 239-243, 261-263: an error thrown inside the try block reaches the
\* catch block, which creates a user or rethrows to the outer catch
Caught(v, e) ==
  IF CreatesOn(e) THEN
    /\ ver' = [ver EXCEPT ![v].pc = "create", ![v].errorCode = e]
    /\ UNCHANGED codes
  ELSE
    /\ ver' = [VerRespond(v, 500, "Failed to verify code or create user")
                 EXCEPT ![v].thrown = e, ![v].errorCode = e]
    /\ codes' = FailureKeeps(ver[v].req.codeId)

\* an error thrown inside the catch block reaches the outer catch
Uncaught(v, e) ==
  /\ ver' = [VerRespond(v, 500, "Failed to verify code or create user")
               EXCEPT ![v].thrown = e]
  /\ codes' = FailureKeeps(ver[v].req.codeId)

\* lines 225-226: getUserByPhoneNumber rejects
VerifyLookupFails(v) ==
  /\ ~Responding
  /\ ver[v].pc = "lookup"
  /\ \E e \in StoreFaults : Caught(v, e)
  /\ UNCHANGED <<now, nextId, authUsers, users, iss, swp, written,
                 deliveries, tokensFor, createdBy, lastWrong, fmtTrace, gateway>>

\* lines 229-231: updateUser rejects
VerifyUpdateAuthFails(v) ==
  /\ ~Responding
  /\ ver[v].pc = "updAuth"
  /\ \E e \in StoreFaults : Caught(v, e)
  /\ UNCHANGED <<now, nextId, authUsers, users, iss, swp, written,
                 deliveries, tokensFor, createdBy, lastWrong, fmtTrace, gateway>>

\* lines 234-238: usersRef.child(uid).update rejects
VerifyUpdateDirFails(v) ==
  /\ ~Responding
  /\ ver[v].pc = "updDir"
  /\ \E e \in StoreFaults : Caught(v, e)
  /\ UNCHANGED <<now, nextId, authUsers, users, iss, swp, written,
                 deliveries, tokensFor, createdBy, lastWrong, fmtTrace, gateway>>

\* lines 245-248: createUser rejects a call it would have served
VerifyCreateFails(v) ==
  /\ ~Responding
  /\ ver[v].pc = "create"
  /\ \E e \in StoreFaults : Uncaught(v, e)
  /\ UNCHANGED <<now, nextId, authUsers, users, iss, swp, written,
                 deliveries, tokensFor, createdBy, lastWrong, fmtTrace, gateway>>

\* lines 251-260: usersRef.child(uid).set rejects, after createUser resolved
VerifySetDirFails(v) ==
  /\ ~Responding
  /\ ver[v].pc = "setDir"
  /\ \E e \in StoreFaults : Uncaught(v, e)
  /\ UNCHANGED <<now, nextId, authUsers, users, iss, swp, written,
                 deliveries, tokensFor, createdBy, lastWrong, fmtTrace, gateway>>

\* the invocation ends; the instance serves the next request
VerifyFinish(v) ==
  /\ ver[v].pc = "done"
  /\ ver' = [ver EXCEPT ![v] = VerIdle]
  /\ lastWrong' = IF ver[v].error = "Incorrect verification code"
                  THEN ver[v].req.codeId ELSE 0
  /\ UNCHANGED <<now, codes, nextId, authUsers, users, iss, swp, written,
                 deliveries, tokensFor, createdBy, fmtTrace, gateway>>

\* ----------------------------------------------------- cleanupExpiredCodes
\* line 388: const now = Date.now()
SweepStart ==
  /\ ~Responding
  /\ swp.pc = "idle"
  /\ swp' = [SwpIdle EXCEPT !.pc = "query", !.snow = now]
  /\ UNCHANGED <<now, codes, nextId, authUsers, users, iss, ver, written, deliveries, tokensFor, createdBy, lastWrong, fmtTrace, gateway>>

\* variant: the query returns no key
ExpiredKeysNone(t) == {}

\* orderByChild("expiresAt").endAt(now): the keys the query returns
ExpiredKeys(t) == {i \in CodeIds : codes[i].exists /\ codes[i].expiresAt <= t}

\* lines 389-399: the query, the updates object and its length test
SweepQuery ==
  /\ ~Responding
  /\ swp.pc = "query"
  /\ swp' = [swp EXCEPT !.matched = ExpiredKeys(swp.snow),
                        !.pc = IF ExpiredKeys(swp.snow) = {} THEN "done"
                               ELSE "delete"]
  /\ UNCHANGED <<now, codes, nextId, authUsers, users, iss, ver, written, deliveries, tokensFor, createdBy, lastWrong, fmtTrace, gateway>>

\* variant: the whole verificationCodes node is cleared
BulkDeleteAll(keys) == [i \in CodeIds |-> NoRec]

\* codesRef.update(updates): every key of updates is set to null
BulkDelete(keys) == [i \in CodeIds |-> IF i \in keys THEN NoRec ELSE codes[i]]

\* lines 400-403
SweepDelete ==
  /\ ~Responding
  /\ swp.pc = "delete"
  /\ codes' = BulkDelete(swp.matched)
  /\ swp' = [swp EXCEPT !.pc = "done", !.wrote = TRUE]
  /\ UNCHANGED <<now, nextId, authUsers, users, iss, ver, written, deliveries, tokensFor, createdBy, lastWrong, fmtTrace, gateway>>

SweepFinish ==
  /\ swp.pc = "done"
  /\ swp' = SwpIdle
  /\ UNCHANGED <<now, codes, nextId, authUsers, users, iss, ver, written,
                 deliveries, tokensFor, createdBy, lastWrong, fmtTrace, gateway>>

\* ------------------------------------------------- formatPhoneNumber alone
\* the characters a caller types: "+", digits (a 0, a 1, another digit) and
\* separators
PhoneChars == {"+", "0", "1", "7", "-", " "}

RECURSIVE PhoneStrings(_)
PhoneStrings(n) ==
  IF n = 0 THEN {<<>>}
  ELSE LET shorter == PhoneStrings(n - 1) IN
       shorter \cup {Append(s, c) : s \in {t \in shorter : Len(t) = n - 1},
                                     c \in PhoneChars}

\* the state before the first call: any string of up to MaxLen characters
InitFormat ==
  /\ now = 0
  /\ codes = [i \in CodeIds |-> NoRec]
  /\ nextId = 0
  /\ authUsers = {}
  /\ users = <<>>
  /\ iss = IssIdle
  /\ ver = [v \in VerProcs |-> VerIdle]
  /\ swp = SwpIdle
  /\ written = {}
  /\ deliveries = {}
  /\ tokensFor = [i \in CodeIds |-> 0]
  /\ createdBy = {}
  /\ lastWrong = 0
  /\ gateway = "live"
  /\ fmtTrace \in {<<x>> : x \in PhoneStrings(MaxLen)}

\* formatPhoneNumber applied to the input
FormatInput ==
  /\ Len(fmtTrace) = 1
  /\ fmtTrace' = Append(fmtTrace, formatPhoneNumber(fmtTrace[1]))
  /\ UNCHANGED <<now, codes, nextId, authUsers, users, iss, ver, swp, written,
                 deliveries, tokensFor, createdBy, lastWrong, gateway>>

\* formatPhoneNumber applied to its own result
FormatAgain ==
  /\ Len(fmtTrace) = 2
  /\ fmtTrace' = Append(fmtTrace, formatPhoneNumber(fmtTrace[2]))
  /\ UNCHANGED <<now, codes, nextId, authUsers, users, iss, ver, swp, written,
                 deliveries, tokensFor, createdBy, lastWrong, gateway>>

NextFormat == FormatInput \/ FormatAgain

SpecFormat == InitFormat /\ [][NextFormat]_vars

\* ------------------------------------------------------------ specification
Issuer == ReqStart \/ ReqWrite \/ ReqDeliver

\* the steps of verifyCode on a record that is not past its expiry
VerifierInTime(v) ==
  \/ VerifyRead(v) \/ VerifyCheck(v)
  \/ VerifyLookup(v) \/ VerifyUpdateAuth(v) \/ VerifyUpdateDir(v)
  \/ VerifyCreate(v) \/ VerifyUserData(v) \/ VerifySetDir(v)
  \/ VerifyRemove(v)
  \/ VerifyToken(v)

Verifier(v) == VerifierInTime(v) \/ VerifyRemoveExpired(v)

Sweeper == SweepStart \/ SweepQuery \/ SweepDelete

\* Issuer and concurrent Verifier invocations at one instant of the clock,
\* where no record is past its expiry
NextRace ==
  \/ Issuer \/ ReqFinish
  \/ \E v \in VerProcs : VerifierInTime(v) \/ VerifyFinish(v)

SpecRace == Init /\ [][NextRace]_vars

\* Issuer, one Verifier invocation at a time, Sweeper and the clock
NextTime ==
  \/ Tick
  \/ Issuer \/ ReqFinish
  \/ Verifier(1) \/ VerifyFinish(1)
  \/ Sweeper \/ SweepFinish

SpecTime == Init /\ [][NextTime]_vars

\* SpecTime with handlers that return once they have answered and a Sweeper
\* that is invoked again and again and whose awaits resolve.  A Sweeper step
\* waits while another invocation is responding, hence strong fairness.
Returns == ReqFinish \/ VerifyFinish(1) \/ SweepFinish

SpecLive ==
  /\ Init /\ [][NextTime]_vars
  /\ WF_vars(Returns)
  /\ SF_vars(Sweeper)

\* the Issuer with a store that may reject its write, and the clock, under
\* either gateway configuration
NextIssue ==
  \/ Tick
  \/ Issuer \/ ReqWriteFails \/ ReqFinish

SpecIssue == InitIssue /\ [][NextIssue]_vars

\* the Issuer alone, with a clock that may move between its two readings
NextStamp ==
  \/ Tick
  \/ Issuer \/ ReqStartAcrossTick \/ ReqFinish

SpecStamp == Init /\ [][NextStamp]_vars

\* the steps of verifyCode in which the identity store or the database fails
VerifierFaults(v) ==
  \/ VerifyLookupFails(v) \/ VerifyUpdateAuthFails(v) \/ VerifyUpdateDirFails(v)
  \/ VerifyCreateFails(v) \/ VerifySetDirFails(v)

\* Issuer and one Verifier invocation at a time at one instant of the clock,
\* with an identity store and a database that may reject the Verifier's calls
NextFault ==
  \/ Issuer \/ ReqFinish
  \/ VerifierInTime(1) \/ VerifierFaults(1) \/ VerifyFinish(1)

SpecFault == Init /\ [][NextFault]_vars

\* every handler and the clock
Next ==
  \/ Tick
  \/ Issuer \/ ReqFinish
  \/ \E v \in VerProcs : Verifier(v) \/ VerifyFinish(v)
  \/ Sweeper \/ SweepFinish

Spec == Init /\ [][Next]_vars

\* ================================================================== claims
NotFound == "Verification code not found"
ExpiredMsg == "Verification code has expired"
Incorrect == "Incorrect verification code"

\* a verifyCode invocation that has answered
Answered(v) == ver[v].pc = "done"

\* a verifyCode invocation whose body passed the checks of lines 165-186
WellFormed(v) == BodyError(ver[v].req) = ""

\* C1: a verifyCode call that starts after a 200 response was returned for
\* its code id answers 400 "Verification code not found" and issues no token.
C1_SequentialSingleUse ==
  \A v \in VerProcs :
    (Answered(v) /\ WellFormed(v) /\ ver[v].late) =>
      /\ ver[v].status = 400
      /\ ver[v].error = NotFound
      /\ ver[v].token = 0
      /\ ~ver[v].mutated

C1_Witness ==
  \E v \in VerProcs :
    /\ Answered(v) /\ WellFormed(v) /\ ver[v].late
    /\ ver[v].req.code \in GenCodes
    /\ ver[v].error = NotFound

\* C2: for every code id at most one verifyCode call returns success with a
\* token, whatever the interleaving of the calls.
C2_AtMostOneSuccess == \A i \in CodeIds : tokensFor[i] <= 1

\* C3: a 200 response (and a token) is given only by a call that read an
\* existing record under the submitted id whose code equals the submitted
\* code and whose expiresAt is not less than the time the call read.
C3_TokenOnlyForValidRecord ==
  \A v \in VerProcs :
    ((Answered(v) /\ ver[v].status = 200) \/ ver[v].token # 0) =>
      /\ WellFormed(v)
      /\ ver[v].snap.exists
      /\ ver[v].snap.code = ver[v].req.code
      /\ ver[v].snap.expiresAt >= ver[v].vnow
      /\ ver[v].token = ver[v].uid

C3_Witness ==
  \E v \in VerProcs :
    /\ Answered(v) /\ ver[v].status = 200 /\ ver[v].token # 0
    /\ ver[v].vnow > ver[v].snap.createdAt

\* the call found a record whose expiresAt is earlier than the time it read
FoundExpired(v) ==
  /\ WellFormed(v) /\ ver[v].snap.exists
  /\ ver[v].snap.expiresAt < ver[v].vnow

\* C4: a well-formed verifyCode call that finds a record with expiresAt
\* earlier than the current time answers 400 "Verification code has expired";
\* afterwards the record is absent, no identity was created or updated by the
\* call and no token was issued, also when the submitted code is correct.
C4_ExpiryOnDetection ==
  \A v \in VerProcs :
    (Answered(v) /\ FoundExpired(v)) =>
      /\ ver[v].status = 400
      /\ ver[v].error = ExpiredMsg
      /\ ~codes[ver[v].req.codeId].exists
      /\ ~ver[v].mutated
      /\ ver[v].token = 0

\* the record was still stored when the call deleted it: no Sweeper run
\* took it first
C4_Witness ==
  \E v \in VerProcs :
    /\ Answered(v) /\ FoundExpired(v)
    /\ ver[v].snap.code = ver[v].req.code
    /\ ver[v].removed
    /\ ver[v].error = ExpiredMsg

\* the call read a stored record that is unexpired at the time the call read
\* and submitted its code
CorrectInTime(v) ==
  /\ WellFormed(v) /\ ver[v].snap.exists
  /\ ver[v].snap.expiresAt >= ver[v].vnow
  /\ ver[v].snap.code = ver[v].req.code

\* the step in which a call answers "Incorrect verification code" writes
\* nothing to the verification records
WrongCodeKeepsRecord ==
  \A v \in VerProcs :
    (~Answered(v) /\ ver'[v].pc = "done" /\ ver'[v].error = Incorrect) =>
      /\ codes' = codes
      /\ ver'[v].status = 400
      /\ ~ver'[v].removed

\* C5 as stated: a wrong code answers "Incorrect verification code" and
\* leaves the record as it was, and a call with the correct code on an
\* unexpired stored record succeeds.
C5_RetrySucceeds ==
  \A v \in VerProcs :
    (Answered(v) /\ CorrectInTime(v)) => ver[v].status = 200

\* C5 as amended: a wrong code answers "Incorrect verification code" and
\* leaves the record as it was; a call with the correct code on an unexpired
\* stored record passes every validation check, and answers 200 unless the
\* identity store throws, in which case it answers 500.
C5_RetryPassesValidation ==
  /\ [][WrongCodeKeepsRecord]_vars
  /\ [](\A v \in VerProcs :
          (Answered(v) /\ CorrectInTime(v)) =>
            \/ ver[v].status = 200 /\ ver[v].thrown = ""
            \/ ver[v].status = 500 /\ ver[v].thrown # "")

\* a correct call succeeds on the record for which the call before it was
\* answered "Incorrect verification code"
C5_Witness ==
  \E v \in VerProcs :
    /\ Answered(v) /\ CorrectInTime(v)
    /\ ver[v].status = 200
    /\ ver[v].req.codeId = lastWrong

\* C6: a gateway call for a code is attempted only after set() of its record
\* was acknowledged; when set() rejects, the call answers 500 and no gateway
\* call is made for that code.
C6_PersistBeforeDeliver ==
  /\ deliveries \subseteq written
  /\ iss.pc = "deliver" => iss.codeId \in written
  /\ (iss.pc = "done" /\ iss.codeId # 0 /\ iss.codeId \notin written) =>
       /\ iss.status = 500
       /\ iss.codeId \notin deliveries
       /\ ~codes[iss.codeId].exists

C6_Witness ==
  /\ iss.pc = "done" /\ iss.status = 500
  /\ iss.codeId \notin written
  /\ deliveries # {}

\* the gateway step leaves the verification records as they are
DeliveryKeepsRecords ==
  (iss.pc = "deliver" /\ iss'.pc = "done") => codes' = codes

\* C7: a requestVerification call whose record write succeeded answers 200
\* with success and the code id of the written record whatever the gateway
\* call did, and the gateway step neither removes nor alters a record.
C7_DeliveryFailureContained ==
  /\ [][DeliveryKeepsRecords]_vars
  /\ []((iss.pc = "done" /\ iss.codeId \in written) =>
          /\ iss.status = 200
          /\ iss.respCodeId = iss.codeId
          /\ iss.delivery \in {"sent", "failed", "skipped"}
          /\ iss.delivery # "skipped" => iss.codeId \in deliveries)

C7_Witness ==
  /\ iss.pc = "done" /\ iss.delivery = "failed"
  /\ iss.status = 200
  /\ codes[iss.codeId].exists
  /\ codes[iss.codeId].code = iss.code

\* the query step matches exactly the stored records with expiresAt <= now,
\* and ends the run without a write when there is none
SweepQueryExact ==
  (swp.pc = "query" /\ swp'.pc # "query") =>
    /\ swp'.matched =
         {i \in CodeIds : codes[i].exists /\ codes[i].expiresAt <= swp.snow}
    /\ swp'.pc = IF swp'.matched = {} THEN "done" ELSE "delete"
    /\ codes' = codes

\* the delete step removes the matched keys and nothing else, and recreates
\* nothing
SweepDeleteExact ==
  (swp.pc = "delete" /\ swp'.pc # "delete") =>
    \A i \in CodeIds :
      /\ i \in swp.matched => ~codes'[i].exists
      /\ i \notin swp.matched => codes'[i] = codes[i]
      /\ (codes[i].exists /\ codes[i].expiresAt > swp.snow) =>
           codes'[i] = codes[i]

\* C8: one cleanupExpiredCodes run removes every record that has
\* expiresAt <= now at its query and no record with expiresAt > now, records
\* written after the query included; with no match it writes nothing, and a
\* matched record that a Verifier deleted meanwhile is not recreated.
C8_SweeperPrecision ==
  /\ [][SweepQueryExact /\ SweepDeleteExact]_vars
  /\ [](swp.pc = "done" =>
          /\ swp.wrote = (swp.matched # {})
          /\ \A i \in swp.matched : ~codes[i].exists)

\* a run deleted a record while a record with a later expiry stays stored
C8_Witness ==
  /\ swp.pc = "done" /\ swp.wrote
  /\ \E i \in CodeIds \ swp.matched :
       codes[i].exists /\ codes[i].expiresAt > swp.snow

\* the identities of a phone number
DirEntriesWithPhone(p) == {k \in DOMAIN users : users[k].phoneNumber = p}

\* C9: a successful verifyCode call that starts after a call that created
\* the identity of the same phone number has returned updates that identity:
\* it returns the same uid, one identity exists for the phone number, its
\* role is "user" and its names are those of the second call.
C9_IdempotentLinkage ==
  \A v \in VerProcs :
    (Answered(v) /\ ver[v].status = 200 /\ ver[v].prior # 0) =>
      LET p == ver[v].snap.phoneNumber
          f == ver[v].req.firstName
          l == ver[v].req.lastName IN
      /\ ver[v].uid = ver[v].prior
      /\ ver[v].path = "updated"
      /\ UsersWithPhone(p) =
           {[uid |-> ver[v].uid, phoneNumber |-> p,
             displayName |-> DisplayName(f, l)]}
      /\ DirEntriesWithPhone(p) = {ver[v].uid}
      /\ users[ver[v].uid].role = "user"
      /\ users[ver[v].uid].uid = ver[v].uid
      /\ users[ver[v].uid].firstName = f
      /\ users[ver[v].uid].lastName = l
      /\ users[ver[v].uid].displayName = DisplayName(f, l)

\* the second call has changed the first name the first call had stored
C9_Witness ==
  \E v \in VerProcs :
    /\ Answered(v) /\ ver[v].status = 200 /\ ver[v].prior # 0
    /\ ver[v].req.firstName = "B"
    /\ users[ver[v].uid].firstName = "B"
    /\ users[ver[v].uid].createdAt < now

\* C10: at most one identity exists per phone number, in the Auth table and
\* in the user directory.
C10_OneIdentityPerPhone ==
  /\ \A a, b \in authUsers : a.phoneNumber = b.phoneNumber => a.uid = b.uid
  /\ \A j, k \in DOMAIN users :
       (users[j].phoneNumber = users[k].phoneNumber
          /\ users[j].phoneNumber # <<>>) => j = k

\* two calls holding different records of one phone number both looked the
\* identity up before either created it; the second create was rejected
C10_Witness ==
  \E v, w \in VerProcs :
    /\ v # w
    /\ Answered(v) /\ ver[v].status = 500
    /\ ver[v].thrown = "auth/phone-number-already-exists"
    /\ ver[w].path = "created"
    /\ ver[w].req.codeId # ver[v].req.codeId
    /\ ver[w].snap.phoneNumber = ver[v].snap.phoneNumber

\* C11: formatPhoneNumber applied to its own result returns that result, for
\* every input over digits, "+" and separators.
C11_Idempotent ==
  Len(fmtTrace) = 3 => fmtTrace[3] = fmtTrace[2]

\* one leading "+" followed by digits only
Canonical(s) ==
  /\ Len(s) >= 1
  /\ s[1] = "+"
  /\ \A k \in 2..Len(s) : IsDigit(s[k])

\* C12: for every input string formatPhoneNumber returns one leading "+"
\* followed only by digit characters.
C12_CanonicalOutput ==
  Len(fmtTrace) >= 2 => Canonical(fmtTrace[2])

MissingFields == "Code ID and verification code are required"
MissingNames == "First name and last name are required"

\* the answer of the first of the five checks that fails for the request, the
\* record and the time a call has read; <<0, "">> when none fails
FirstFailedCheck(r, rec, t) ==
  IF r.codeId = 0 \/ r.code = "" THEN <<400, MissingFields>>
  ELSE IF r.firstName = "" \/ r.lastName = "" THEN <<400, MissingNames>>
  ELSE IF ~rec.exists THEN <<400, NotFound>>
  ELSE IF rec.expiresAt < t THEN <<400, ExpiredMsg>>
  ELSE IF rec.code # r.code THEN <<400, Incorrect>>
  ELSE <<0, "">>

\* C13: a POST verifyCode call is answered with the error of the first check
\* that fails in the order fields, names, exists, expiry, code; a call with a
\* missing field or name has read no record, a call that found an expired
\* record has deleted it whatever the submitted code, and a call that passes
\* the five checks is answered 200 or 500.
C13_ValidationOrder ==
  \A v \in VerProcs :
    (Answered(v) /\ ver[v].req.method = "POST") =>
      LET me == ver[v]
          first == FirstFailedCheck(me.req, me.snap, me.vnow) IN
      /\ first[1] # 0 => (me.status = first[1] /\ me.error = first[2])
      /\ first[1] = 0 => me.status \in {200, 500}
      /\ me.error \in {MissingFields, MissingNames} =>
           (me.snap = NoRec /\ me.vnow = 0)
      /\ me.error = ExpiredMsg => ~codes[me.req.codeId].exists

\* a call with a wrong code on an expired record is answered "expired" and
\* has deleted the record
C13_Witness ==
  \E v \in VerProcs :
    /\ Answered(v)
    /\ ver[v].snap.exists
    /\ ver[v].snap.expiresAt < ver[v].vnow
    /\ ver[v].snap.code # ver[v].req.code
    /\ ver[v].error = ExpiredMsg
    /\ ver[v].removed

MissingPhone == "Phone number is required"

Rejections == {MissingFields, MissingNames, NotFound, Incorrect}

\* the stores, the tokens handed out and the gateway calls made
Effects == <<codes, authUsers, users, tokensFor, createdBy, deliveries, written>>

\* the steps of a verifyCode call that ends with a rejection: the read of the
\* record and the step that answers
VerifierRejectionStep(v) ==
  \/ ver[v].pc = "idle" /\ ver'[v].pc = "check"
  \/ /\ ver[v].pc \in {"idle", "check"}
     /\ ver'[v].pc = "done"
     /\ ver'[v].error \in Rejections

\* the step of a requestVerification call that answers "Phone number is
\* required"
IssuerRejectionStep ==
  iss.pc = "idle" /\ iss'.pc = "done" /\ iss'.error = MissingPhone

RejectionStepsWriteNothing ==
  /\ \A v \in VerProcs : VerifierRejectionStep(v) => UNCHANGED Effects
  /\ IssuerRejectionStep => (UNCHANGED Effects /\ UNCHANGED nextId)

\* C14: every step of a verifyCode call that ends with the missing-fields,
\* missing-names, not-found or incorrect-code error, and the step of a
\* requestVerification call that ends with the missing-phone error, leaves
\* the verification records, the identities and the directory as they are,
\* hands out no token and makes no gateway call.
C14_RejectionsWriteNothing ==
  /\ [][RejectionStepsWriteNothing]_vars
  /\ [](\A v \in VerProcs :
          (Answered(v) /\ ver[v].error \in Rejections) =>
            /\ ver[v].status = 400
            /\ ~ver[v].mutated /\ ~ver[v].removed
            /\ ver[v].token = 0 /\ ver[v].uid = 0)
  /\ []((iss.pc = "done" /\ iss.error = MissingPhone) =>
          (iss.status = 400 /\ iss.codeId = 0 /\ iss.delivery = "none"))

\* a call with a wrong code was answered while its record stays stored as the
\* call read it
C14_Witness ==
  \E v \in VerProcs :
    /\ Answered(v) /\ ver[v].error = Incorrect
    /\ ver[v].snap.exists
    /\ codes[ver[v].req.codeId] = ver[v].snap

NoSuchIdentity == "auth/user-not-found"

\* a step that adds an identity to the Auth table is the createUser of a call
\* whose lookup reported that no identity exists
CreationOnlyOnNotFound ==
  authUsers' # authUsers /\ Cardinality(authUsers') > Cardinality(authUsers) =>
    \E v \in VerProcs :
      /\ ver[v].pc = "create"
      /\ ver[v].errorCode = NoSuchIdentity
      /\ ver'[v].path = "created"

\* C15: verifyCode adds an identity only when the lookup reported that no
\* identity exists; a call whose lookup or update failed in another way, or
\* whose create failed, is answered 500 and has created no identity.
C15_CreationOnlyOnNotFound ==
  /\ [][CreationOnlyOnNotFound]_vars
  /\ [](\A v \in VerProcs :
          /\ ver[v].path = "created" => ver[v].errorCode = NoSuchIdentity
          /\ (Answered(v) /\ ver[v].errorCode \notin {"", NoSuchIdentity}) =>
               (ver[v].status = 500 /\ ver[v].path # "created"
                  /\ ver[v].token = 0)
          /\ (Answered(v) /\ ver[v].thrown # "") =>
               (ver[v].status = 500 /\ ver[v].token = 0))

\* the lookup threw auth/invalid-phone-number, the catch block called
\* createUser, which threw again: 500 and no identity for the phone number
C15_Witness ==
  \E v \in VerProcs :
    /\ Answered(v)
    /\ ver[v].errorCode = "auth/invalid-phone-number"
    /\ ver[v].thrown = "auth/invalid-phone-number"
    /\ ver[v].status = 500
    /\ UsersWithPhone(ver[v].snap.phoneNumber) = {}

\* C16: every stored verification record has expiresAt = createdAt + TTL.
C16_ExpiryIsCreationPlusTTL ==
  \A i \in CodeIds :
    codes[i].exists => codes[i].expiresAt = codes[i].createdAt + TTL

\* C17: with a Sweeper that keeps being invoked, every stored record whose
\* expiresAt the clock has reached is eventually absent from the store,
\* whatever the callers do with it.
C17_NoRecordLeaks ==
  \A i \in CodeIds :
    (codes[i].exists /\ codes[i].expiresAt <= now) ~> ~codes[i].exists

\* a Sweeper run has removed an expired record for which no token was issued
C17_Witness ==
  /\ swp.pc = "done" /\ swp.wrote
  /\ \E i \in swp.matched :
       /\ i \in written
       /\ ~codes[i].exists
       /\ tokensFor[i] = 0
  /\ \A v \in VerProcs : ver[v].pc = "idle"

\* the call passed the expiry test and the code test
Accepted(v) ==
  \/ ver[v].pc \in {"lookup", "updAuth", "updDir", "create", "userData",
                    "setDir", "remove", "token"}
  \/ Answered(v) /\ ver[v].status \in {200, 500}

\* C18 as stated: no verifyCode call accepts a record that a Sweeper run
\* invoked at the time the call read would delete (expiresAt <= t).
C18_VerifierAgreesWithSweeper ==
  \A v \in VerProcs : Accepted(v) => ver[v].snap.expiresAt > ver[v].vnow

\* C18 as amended: a verifyCode call that reads the clock as t never accepts a
\* record with expiresAt < t, and a Sweeper run invoked at t matches the
\* records with expiresAt <= t; a record with expiresAt = t is not answered
\* "expired": with the correct code the call accepts it.
C18_ExpiryBoundary ==
  /\ [][SweepQueryExact]_vars
  /\ [](\A v \in VerProcs :
          /\ Accepted(v) => ver[v].snap.expiresAt >= ver[v].vnow
          /\ (Answered(v) /\ WellFormed(v) /\ ver[v].snap.exists
                /\ ver[v].snap.expiresAt = ver[v].vnow) =>
               /\ ver[v].error # ExpiredMsg
               /\ ~ver[v].removed \/ ver[v].status = 200
               /\ ver[v].snap.code = ver[v].req.code => Accepted(v))

\* a call succeeded on a record with expiresAt equal to the time it read,
\* which a Sweeper run invoked at that time has matched for deletion
C18_Witness ==
  \E v \in VerProcs :
    /\ Answered(v) /\ ver[v].status = 200
    /\ ver[v].snap.expiresAt = ver[v].vnow
    /\ swp.snow = ver[v].vnow
    /\ ver[v].req.codeId \in swp.matched

\* the step in which a call is answered 500 writes nothing to the
\* verification records
FailedStepKeepsRecords ==
  \A v \in VerProcs :
    (ver[v].pc # "done" /\ ver'[v].pc = "done" /\ ver'[v].status = 500) =>
      codes' = codes

\* C19: a verifyCode call that passed the validation checks and whose identity
\* lookup, update or creation failed is answered 500 and has not deleted the
\* verification record: the record is stored as the call read it.
C19_FailureKeepsCode ==
  /\ [][FailedStepKeepsRecords]_vars
  /\ [](\A v \in VerProcs :
          (Answered(v) /\ ver[v].thrown # "") =>
            /\ ver[v].status = 500
            /\ ver[v].token = 0
            /\ ~ver[v].removed
            /\ ver[v].snap.exists
            /\ ver[v].snap.code = ver[v].req.code
            /\ codes[ver[v].req.codeId] = ver[v].snap)

\* the only record ever written was resubmitted and the call succeeded on the
\* identity that an earlier call, which failed after createUser, had created
C19_Witness ==
  \E v \in VerProcs :
    /\ Answered(v) /\ ver[v].status = 200
    /\ ver[v].path = "updated"
    /\ createdBy = {}
    /\ written = {ver[v].req.codeId}
    /\ ver[v].removed

\* C20: every entry of the user directory carries its uid, a phone number,
\* role "user", createdAt and the name fields.
C20_DirectoryEntriesComplete ==
  \A k \in DOMAIN users :
    /\ users[k].uid = k
    /\ users[k].phoneNumber # <<>>
    /\ users[k].role = "user"
    /\ users[k].createdAt >= 0
    /\ users[k].firstName # Absent
    /\ users[k].lastName # Absent

====
